---- MODULE Spec2Model ----
(***************************************************************************)
(* Model of qmodem/qparse.py: the single-pass scanner read_file that turns *)
(* a Qmodem capture log into CallRecord objects held by a                  *)
(* CallSessionStore, together with the class-level counters of CallRecord, *)
(* the status-block parser (ATIParserBase.parse_output), the derived       *)
(* durations, and the aggregates that print_report2 reports.               *)
(*                                                                         *)
(* Optional[T] values are modelled as sequences: None is <<>> and a        *)
(* present value v is <<v>>.  CallRecord objects live in a heap (objs) and *)
(* are referred to by their index, so that "record" and the store's list   *)
(* hold references exactly as the Python names do.                         *)
(***************************************************************************)
EXTENDS Integers, Sequences, FiniteSets, TLC

VARIABLES
    args,                    \* argparse namespace: [nullmodem |-> BOOLEAN]
    shape,                   \* which family of input files the run reads
    log,                     \* the lines of the file read so far, in order
    status,                  \* "scanning", "returned", or the exception raised
    store,                   \* repo.records: sequence of object references
    objs,                    \* heap of CallRecord objects, by creation order
    record,                  \* local "record": None or <<reference>>
    in_ati,                  \* local in_ati
    ati_lines,               \* local ati_lines
    aborted,                 \* local aborted
    count_start_dial,        \* CallRecord.count_start_dial (class attribute)
    count_connected,         \* CallRecord.count_connected
    count_download_success,  \* CallRecord.count_download_success
    count_download_failure,  \* CallRecord.count_download_failure
    report,                  \* None, or <<outcome of print_report2>>
    earlier                  \* None, or <<log and counters of the process's
                             \* earlier read_file call, when it returned>>

vars == <<args, shape, log, status, store, objs, record, in_ati, ati_lines,
          aborted, count_start_dial, count_connected,
          count_download_success, count_download_failure, report, earlier>>

counters == <<count_start_dial, count_connected,
              count_download_success, count_download_failure>>

locals == <<in_ati, ati_lines, aborted>>

----------------------------------------------------------------------------
(* Bounds *)

\* Longest free-form input file (number of lines) explored.
MaxLines == 3

\* Most lines between the begin and end markers of a status block.
MaxBlockLines == 2

\* Longest log of call, abort and block markers explored.
MaxCaptureLines == 5

\* Most calls of a log of complete calls.
MaxCalls == 4

\* Longest log of noise-prefixed markers explored.
MaxNoiseLines == 3

\* Longest log read by each of two read_file calls of one process.
MaxRunLines == 3

----------------------------------------------------------------------------
(* Optional values *)

None == <<>>

Some(v) == <<v>>

----------------------------------------------------------------------------
(* Timestamps: text "MM-DD-YY HH:MM:SS" with day 01 and time 00:00:SS.     *)
(* The text always has the digit shape the marker patterns require; the    *)
(* month and the second may still be out of range.                         *)

TsText(mo, yy, ss) == [mo |-> mo, yy |-> yy, ss |-> ss]

\* "01-01-99 00:00:59"
TsEarly == TsText(1, 99, 59)

\* "01-01-00 00:00:00"  (one second later: %y maps 00 to 2000, 99 to 1999)
TsLate == TsText(1, 0, 0)

\* "13-01-99 00:00:00"  (matches \d{2}-\d{2}-... but is no date)
TsMalformed == TsText(13, 99, 0)

NoTs == TsText(0, 0, 0)

ValidTs == {TsEarly, TsLate}

\* strptime's %y pivot: 69..99 are 19xx, 00..68 are 20xx
CenturyYear(yy) == IF yy >= 69 THEN 1900 + yy ELSE 2000 + yy

SecondsIn1999 == 31536000

\* Does datetime.strptime raise ValueError on this text?
TsRaises(ts) == ~(ts.mo \in 1..12 /\ ts.ss \in 0..59)

\* The instant, in seconds since 1999-01-01 00:00:00 (years 1999 and 2000,
\* first of January, which are the only dates the inputs use).
parse_log_ts(ts) == (CenturyYear(ts.yy) - 1999) * SecondsIn1999 + ts.ss

----------------------------------------------------------------------------
(* CPS text of a download result line: the \S+ group, as characters.       *)

Digits == {"0", "1", "2", "3", "4", "5", "6", "7", "8", "9"}

DigitVal(c) ==
    CASE c = "0" -> 0 [] c = "1" -> 1 [] c = "2" -> 2 [] c = "3" -> 3
      [] c = "4" -> 4 [] c = "5" -> 5 [] c = "6" -> 6 [] c = "7" -> 7
      [] c = "8" -> 8 [] c = "9" -> 9

\* "1,2"
CpsComma == <<"1", ",", "2">>

\* "n/a"
CpsGarbage == <<"n", "/", "a">>

RECURSIVE StripCommas(_)
\* cps.replace(",", "")
StripCommas(s) ==
    IF s = <<>> THEN <<>>
    ELSE IF s[1] = "," THEN StripCommas(Tail(s))
    ELSE <<s[1]>> \o StripCommas(Tail(s))

\* Does int(text) raise ValueError?  (texts of digits only are accepted)
IntRaises(s) == s = <<>> \/ \E i \in 1..Len(s) : s[i] \notin Digits

RECURSIVE IntOf(_)
\* int(text) for a text of digits
IntOf(s) ==
    IF s = <<>> THEN 0
    ELSE 10 * IntOf(SubSeq(s, 1, Len(s) - 1)) + DigitVal(s[Len(s)])

----------------------------------------------------------------------------
(* Lines.  A line is described by what the patterns can see of it: whether *)
(* noise precedes its first marker, the markers it contains in order, the  *)
(* timestamp text that follows the marker, the download status and CPS     *)
(* group, the banner's speed, the words of a status-block line (text), and *)
(* whether it still carries its newline.                                   *)

Line(noise, marks, ts, result, cps, bps) ==
    [noise |-> noise, marks |-> marks, ts |-> ts, result |-> result,
     cps |-> cps, bps |-> bps, text |-> <<>>, eol |-> TRUE]

TsMarkers == {"start_qmodem", "aborting", "start_dial", "connected",
              "start_download", "end_download", "end_call", "exit_qmodem"}

BlockMarkers == {"stats_ati6", "end_stats_ati6",
                 "stats_ati11", "end_stats_ati11"}

MarkerLine(m, ts) == Line(FALSE, <<m>>, ts, "", None, 0)

NoisyMarkerLine(m, ts) == Line(TRUE, <<m>>, ts, "", None, 0)

BlockLine(m) == Line(FALSE, <<m>>, NoTs, "", None, 0)

\* "Connected at 9600 bps."
BannerLine == Line(FALSE, <<"wc_banner">>, NoTs, "", None, 9600)

ResultLine(result, cps) == Line(FALSE, <<"dl_status">>, NoTs, result, cps, 0)

\* "### end_download <ts> - UNSUCCESSFUL."  (both patterns match the line)
EndDownloadWithResult ==
    Line(FALSE, <<"end_download", "dl_status">>, TsLate, "UNSUCCESSFUL.", None, 0)

\* a line no pattern matches
PlainLine == Line(FALSE, <<>>, NoTs, "", None, 0)

Results == {"SUCCESSFUL!", "UNSUCCESSFUL."}

CpsGroups == {None, Some(CpsComma), Some(CpsGarbage)}

Lines ==
    {MarkerLine(m, ts) : m \in TsMarkers, ts \in ValidTs \cup {TsMalformed}}
    \cup {NoisyMarkerLine(m, TsLate) : m \in {"connected", "end_call", "exit_qmodem"}}
    \cup {BlockLine(m) : m \in BlockMarkers}
    \cup {ResultLine(r, c) : r \in Results, c \in CpsGroups}
    \cup {BannerLine, EndDownloadWithResult, PlainLine}

\* pattern.search(line): the marker occurs somewhere in the line
Search(m, line) == \E i \in 1..Len(line.marks) : line.marks[i] = m

\* a match that accepts the marker anywhere in the line
Match_Anywhere(m, line) == \E i \in 1..Len(line.marks) : line.marks[i] = m

\* pattern.match(line): the marker starts the line
Match(m, line) == ~line.noise /\ line.marks # <<>> /\ line.marks[1] = m

\* line.strip()
Strip(line) == [line EXCEPT !.eol = FALSE]

----------------------------------------------------------------------------
(* Text of the lines of a status block.  The parser's patterns see a line  *)
(* as words separated by runs of blanks: a token is a word with the number *)
(* of blanks before it (gap), its leading run of digits as a number (num,  *)
(* None when the word does not start with a digit) and whether the word is *)
(* digits only (all).                                                      *)

Word(txt) == [gap |-> 1, txt |-> txt, num |-> None, all |-> FALSE]

Number(n) == [gap |-> 1, txt |-> ToString(n), num |-> Some(n), all |-> TRUE]

\* a word such as "28800/26400": digits first, other characters after them
DigitLed(n, txt) == [gap |-> 1, txt |-> txt, num |-> Some(n), all |-> FALSE]

After(g, t) == [t EXCEPT !.gap = g]

\* a stripped line starts with its first word
LineStart(T) == IF T = <<>> THEN T ELSE [T EXCEPT ![1] = After(0, T[1])]

\* a line of a status block, given by its tokens
DataLine(T) == [Line(FALSE, <<>>, NoTs, "", None, 0) EXCEPT !.text = LineStart(T)]

\* The text a key or a text value is: the words T[a..b] with the blanks
\* between them, outer blanks stripped
Key(T, a, b) ==
    [k \in 1..(b - a + 1) |->
        <<T[a + k - 1].txt, IF k = 1 THEN 0 ELSE T[a + k - 1].gap>>]

\* The tokens of a label
LabelTokens(key) == [k \in DOMAIN key |-> After(key[k][2], Word(key[k][1]))]

Hashes(m) ==
    IF m \in {"start_qmodem", "start_dial", "connected", "end_call", "exit_qmodem"}
    THEN "####" ELSE "###"

\* The text of a line that can reach the block buffer: a status-block line,
\* or a line whose marker is a block marker, end_call or exit_qmodem
BufferText(line) ==
    IF line.marks = <<>> THEN line.text
    ELSE LineStart(
           (IF line.noise THEN <<Word("noise")>> ELSE <<>>)
           \o <<Word(Hashes(line.marks[1])), Word(line.marks[1])>>
           \o (IF line.marks[1] \in TsMarkers
               THEN <<DigitLed(line.ts.mo, "MM-DD-YY"), DigitLed(0, "HH:MM:SS")>>
               ELSE <<>>))

\* ATI6Parser.get_mapping: pairs <<label, field identifier>>
ATI6Mapping ==
    {<<<<<<"Chars", 0>>, <<"sent", 1>>>>, "chars_tx">>,
     <<<<<<"Chars", 0>>, <<"Received", 1>>>>, "chars_rx">>,
     <<<<<<"Chars", 0>>, <<"lost", 1>>>>, "chars_lost">>,
     <<<<<<"Octets", 0>>, <<"sent", 1>>>>, "octets_tx">>,
     <<<<<<"Octets", 0>>, <<"Received", 1>>>>, "octets_rx">>,
     <<<<<<"Blocks", 0>>, <<"sent", 1>>>>, "blocks_tx">>,
     <<<<<<"Blocks", 0>>, <<"Received", 1>>>>, "blocks_rx">>,
     <<<<<<"Blocks", 0>>, <<"resent", 1>>>>, "blocks_resent">>,
     <<<<<<"Retrains", 0>>, <<"Requested", 1>>>>, "retr_req">>,
     <<<<<<"Retrains", 0>>, <<"Granted", 1>>>>, "retr_granted">>,
     <<<<<<"Line", 0>>, <<"Reversals", 1>>>>, "line_reversals">>,
     <<<<<<"Blers", 0>>>>, "blers">>,
     <<<<<<"Link", 0>>, <<"Timeouts", 1>>>>, "link_timeouts">>,
     <<<<<<"Link", 0>>, <<"Naks", 1>>>>, "link_naks">>,
     <<<<<<"Data", 0>>, <<"Compression", 1>>>>, "data_compression">>,
     <<<<<<"Equalization", 0>>>>, "equalization">>,
     <<<<<<"Fallback", 0>>>>, "fallback">>,
     <<<<<<"Protocol", 0>>>>, "protocol">>,
     <<<<<<"Speed", 0>>>>, "speed">>,
     <<<<<<"Last", 0>>, <<"Call", 1>>>>, "last_call">>,
     <<<<<<"Disconnect", 0>>, <<"Reason", 1>>, <<"is", 1>>>>, "disconnect_reason">>}

\* ATI11Parser.get_mapping
ATI11Mapping ==
    {<<<<<<"Modulation", 0>>>>, "modulation">>,
     <<<<<<"Carrier", 0>>, <<"Freq", 1>>, <<"(", 1>>, <<"Hz", 1>>, <<")", 1>>>>, "carrier_freq">>,
     <<<<<<"Symbol", 0>>, <<"Rate", 1>>>>, "symbol_rate">>,
     <<<<<<"Trellis", 0>>, <<"Code", 1>>>>, "trellis_code">>,
     <<<<<<"Nonlinear", 0>>, <<"Encoding", 1>>>>, "nonlinear_encoding">>,
     <<<<<<"Precoding", 0>>>>, "precoding">>,
     <<<<<<"Shaping", 0>>>>, "shaping">>,
     <<<<<<"Preemphasis", 0>>, <<"Index", 1>>>>, "preemphasis_index">>,
     <<<<<<"Recv/Xmit", 0>>, <<"Level", 1>>, <<"(-dBm)", 1>>>>, "recv_xmit_level">>,
     <<<<<<"SNR", 0>>, <<"(", 13>>, <<"dB", 1>>, <<")", 1>>>>, "snr">>,
     <<<<<<"Near", 0>>, <<"Echo", 1>>, <<"Loss", 1>>, <<"(", 2>>, <<"dB", 1>>, <<")", 1>>>>, "near_echo_loss">>,
     <<<<<<"Far", 0>>, <<"Echo", 1>>, <<"Loss", 1>>, <<"(", 3>>, <<"dB", 1>>, <<")", 1>>>>, "far_echo_loss">>,
     <<<<<<"Roundtrip", 0>>, <<"Delay", 1>>, <<"(msec)", 1>>>>, "roundtrip_delay">>,
     <<<<<<"Round", 0>>, <<"Trip", 1>>, <<"Delay", 1>>, <<"(msec)", 1>>>>, "roundtrip_delay">>,
     <<<<<<"Timing", 0>>, <<"Offset", 1>>, <<"(", 3>>, <<"ppm)", 1>>>>, "timing_offset">>,
     <<<<<<"Carrier", 0>>, <<"Offset", 1>>, <<"(", 2>>, <<"ppm)", 1>>>>, "carrier_offset">>,
     <<<<<<"RX", 0>>, <<"Upshifts", 1>>>>, "rx_upshifts">>,
     <<<<<<"RX", 0>>, <<"Downshifts", 1>>>>, "rx_downshifts">>,
     <<<<<<"TX", 0>>, <<"Speedshifts", 1>>>>, "tx_speedshifts">>,
     <<<<<<"x2", 0>>, <<"Status", 1>>>>, "x2_status">>}

get_mapping(kind) == IF kind = "ati6" THEN ATI6Mapping ELSE ATI11Mapping

\* mapping.get(key): None or the field identifier
mapped_name(mapping, key) ==
    IF \E p \in mapping : p[1] = key
    THEN Some((CHOOSE p \in mapping : p[1] = key)[2])
    ELSE None

\* Values of the parsed data: int(text) or a stripped text
IntValue(n) == [n |-> Some(n), s |-> <<>>]

StrValue(key) == [n |-> None, s |-> key]

Min(S) == CHOOSE x \in S : \A y \in S : x <= y

\* "if (k := mapped_name(..)): data[k] = v"
Put(data, name, v) ==
    IF name = None THEN data
    ELSE [k \in DOMAIN data \cup {name[1]} |-> IF k = name[1] THEN v ELSE data[k]]

\* (.+?)\s+(\d+) at the end of the two-pair pattern, the key starting no
\* later than token s: <<key2, value2>>, or <<>> when it cannot match.
\* The key ends before the first later word that starts with a digit; failing
\* that, the key is made of blanks only when three blanks or more precede a
\* word s that starts with a digit.
SecondPair(T, s) ==
    LET J == {j \in s..(Len(T) - 1) : T[j + 1].num # None}
    IN  IF J # {} THEN <<Key(T, s, Min(J)), T[Min(J) + 1].num[1]>>
        ELSE IF T[s].gap >= 3 /\ T[s].num # None THEN <<<<>>, T[s].num[1]>>
        ELSE <<>>

\* (.+?)\s+(\d+)\s+(.+?)\s+(\d+): where the first key can end
TwoPairSplits(T) ==
    {i \in 1..(Len(T) - 2) : T[i + 1].all /\ SecondPair(T, i + 2) # <<>>}

\* (.+?)\s\s+(\d+): where the key can end
NumberSplits(T) ==
    {i \in 1..(Len(T) - 1) : T[i + 1].gap >= 2 /\ T[i + 1].num # None}

\* (.+?)\s\s+(.+): where the key can end
TextSplits(T) == {i \in 1..(Len(T) - 1) : T[i + 1].gap >= 2}

\* the body of parse_output's loop for one line
ParseLine(data, T, mapping) ==
    IF T # <<>> /\ T[1].txt = "USRobotics" THEN data
    ELSE IF TwoPairSplits(T) # {}
    THEN LET i == Min(TwoPairSplits(T))
             second == SecondPair(T, i + 2)
         IN  Put(Put(data, mapped_name(mapping, Key(T, 1, i)), IntValue(T[i + 1].num[1])),
                 mapped_name(mapping, second[1]), IntValue(second[2]))
    ELSE IF NumberSplits(T) # {}
    THEN LET i == Min(NumberSplits(T))
         IN  Put(data, mapped_name(mapping, Key(T, 1, i)), IntValue(T[i + 1].num[1]))
    ELSE IF TextSplits(T) # {}
    THEN LET i == Min(TextSplits(T))
         IN  Put(data, mapped_name(mapping, Key(T, 1, i)), StrValue(Key(T, i + 1, Len(T))))
    ELSE data

RECURSIVE ParseLines(_, _, _)
ParseLines(data, lines, mapping) ==
    IF lines = <<>> THEN data
    ELSE ParseLines(ParseLine(data, BufferText(lines[1]), mapping), Tail(lines), mapping)

\* parse_output: the dict of the mapped fields of the buffer's lines
parse_output(lines, mapping) == ParseLines(<<>>, lines, mapping)

----------------------------------------------------------------------------
(* ConnectionType and CallRecord *)

ConnectionTypeMembers == {"MODEM", "DIRECTSERIAL"}

\* Does the attribute lookup ConnectionType.<name> raise AttributeError?
EnumRaises(name) == name \notin ConnectionTypeMembers

\* The member name read by the conditional expression of read_file
ConnectTypeExpr(a) == IF a.nullmodem THEN "DIRECT" ELSE "MODEM"

\* The dataclass field defaults
CallRecord ==
    [connected |-> None,
     start_qmodem |-> None, start_dial |-> None, connect_time |-> None,
     start_download |-> None, end_download |-> None,
     download_success |-> None,
     end_call |-> None, exit_qmodem |-> None, aborted_time |-> None,
     abort_reason |-> None,
     connect_type |-> "MODEM",
     remote_connect_bps |-> None,
     download_cps |-> None,
     ati6 |-> None, ati11 |-> None]

\* a construction that forgets to count the attempt
PostInit_NotCounted(count) == count

\* __post_init__: the class-level attempt counter after one more construction
PostInit(count) == count + 1

\* mark_connected: the object afterwards
mark_connected(r, success) == [r EXCEPT !.connected = Some(success)]

\* mark_connected: the class-level connected counter afterwards
mark_connected_count(count, success) == IF success THEN count + 1 ELSE count

\* mark_download_success: the object afterwards
mark_download_success(r, success) == [r EXCEPT !.download_success = Some(success)]

\* mark_download_success: CallRecord.count_download_success afterwards
mark_download_success_ok(count, success) == IF success THEN count + 1 ELSE count

\* a failure that is counted as nothing
mark_download_success_fail_NotCounted(count, success) == count

\* mark_download_success: CallRecord.count_download_failure afterwards
mark_download_success_fail(count, success) == IF success THEN count ELSE count + 1

connect_failure_count == count_start_dial - count_connected

\* connect_success_percent, as the exact ratio count_connected * 100 / count_start_dial
\* compared against a bound: is the percentage greater than p?
connect_success_percent_exceeds(p) ==
    IF count_start_dial = 0 THEN 0 > p
    ELSE count_connected * 100 > p * count_start_dial

\* ATI6Parser(lines) / ATI11Parser(lines): the parser object keeps its input
ATIParser(kind, lines) ==
    [kind |-> kind, input_lines |-> lines,
     data |-> parse_output(lines, get_mapping(kind))]

----------------------------------------------------------------------------
(* Derived durations.  A result is [exc, val]: exc is "" when the method   *)
(* returns val (an Optional[int]) and the exception name when it raises.   *)

Returns(v) == [exc |-> "", val |-> v]

Raises(e) == [exc |-> e, val |-> None]

\* int((a - b).total_seconds()) for Optional datetimes a and b
Elapsed(a, b) ==
    IF a = None \/ b = None THEN Raises("TypeError") ELSE Returns(Some(a[1] - b[1]))

handshake_duration(r) ==
    IF r.connect_type = "DIRECTSERIAL" THEN Returns(Some(0))
    ELSE IF r.start_dial # None /\ r.connect_time # None
         THEN Elapsed(r.connect_time, r.start_dial)
         ELSE Returns(None)

download_duration(r) ==
    IF r.download_success = Some(TRUE)
    THEN Elapsed(r.end_download, r.start_download)
    ELSE Returns(None)

call_duration(r) ==
    IF r.connect_type = "DIRECTSERIAL"
    THEN Elapsed(r.exit_qmodem, r.start_qmodem)
    ELSE IF r.end_call # None THEN Elapsed(r.end_call, r.connect_time)
    ELSE IF r.aborted_time # None THEN Elapsed(r.aborted_time, r.connect_time)
    ELSE IF r.exit_qmodem # None THEN Elapsed(r.exit_qmodem, r.connect_time)
    ELSE Returns(None)

\* termination_reason: val is <<kind, seconds>>, seconds being the N of
\* "ABORTED after N sec." and 0 for the other two kinds
termination_reason(r) ==
    IF r.aborted_time # None
    THEN (IF Elapsed(r.aborted_time, r.connect_time).exc # ""
          THEN Raises("TypeError")
          ELSE Returns(<<"ABORTED", Elapsed(r.aborted_time, r.connect_time).val[1]>>))
    ELSE IF r.end_call # None THEN Returns(<<"normal", 0>>)
    ELSE Returns(<<"unknown", 0>>)

----------------------------------------------------------------------------
(* CallSessionStore *)

\* a save that appends the record twice
save_Twice(records, ref) == Append(Append(records, ref), ref)

\* CallSessionStore.save
save(records, ref) == Append(records, ref)

----------------------------------------------------------------------------
(* The report: print_report2 and CallSessionStore.report_aggregates.  Only *)
(* what is computed is modelled, not the layout of the printed text; the   *)
(* p95 column, computed by numpy.percentile, is left out.                  *)

Metrics == {"bps", "end_bps", "handshake", "cps", "call", "roundtrip"}

\* an Optional[int] as an Optional parsed value
IntOpt(o) == IF o = None THEN None ELSE Some(IntValue(o[1]))

\* getattr(parser, name, None): parse_output promotes the mapped fields to
\* attributes of the parser object
ParsedField(p, name) ==
    IF p # None /\ name \in DOMAIN p[1].data THEN Some(p[1].data[name]) ELSE None

\* The extractor lambdas of report_aggregates, by metric
Extract(m, r) ==
    CASE m = "bps" -> Returns(IntOpt(r.remote_connect_bps))
      [] m = "end_bps" -> Returns(ParsedField(r.ati6, "speed"))
      [] m = "handshake" ->
           (IF handshake_duration(r).exc # "" THEN handshake_duration(r)
            ELSE Returns(IntOpt(handshake_duration(r).val)))
      [] m = "cps" -> Returns(IntOpt(r.download_cps))
      [] m = "call" ->
           (IF call_duration(r).exc # "" THEN call_duration(r)
            ELSE Returns(IntOpt(call_duration(r).val)))
      [] m = "roundtrip" -> Returns(ParsedField(r.ati11, "roundtrip_delay"))

RECURSIVE durations_AbsentAsZero(_, _)
\* a projection that counts an absent value as 0
durations_AbsentAsZero(m, refs) ==
    IF refs = <<>> THEN <<>>
    ELSE (IF Extract(m, objs[refs[1]]).val = None THEN <<IntValue(0)>>
          ELSE <<Extract(m, objs[refs[1]]).val[1]>>)
         \o durations_AbsentAsZero(m, Tail(refs))

RECURSIVE durations(_, _)
\* CallSessionStore.durations with the extractor of metric m
durations(m, refs) ==
    IF refs = <<>> THEN <<>>
    ELSE (IF Extract(m, objs[refs[1]]).val = None THEN <<>>
          ELSE <<Extract(m, objs[refs[1]]).val[1]>>)
         \o durations(m, Tail(refs))

\* Does an extractor raise on some record?
ExtractRaises(m, refs) == \E i \in DOMAIN refs : Extract(m, objs[refs[i]]).exc # ""

RECURSIVE SumOf(_)
\* sum(values) for integer values
SumOf(values) ==
    IF values = <<>> THEN 0 ELSE values[1].n[1] + SumOf(Tail(values))

Max(S) == CHOOSE x \in S : \A y \in S : x >= y

\* stats(name, values): None when it prints N/A; sum() raises TypeError on
\* a text value
stats(values) ==
    IF values = <<>> THEN Returns(None)
    ELSE IF \E i \in DOMAIN values : values[i].n = None THEN Raises("TypeError")
    ELSE Returns(Some(
           [avg |-> SumOf(values) \div Len(values),
            min |-> Min({values[i].n[1] : i \in DOMAIN values}),
            max |-> Max({values[i].n[1] : i \in DOMAIN values})]))

\* download_success_pct as the exact ratio num / den
DownloadPct ==
    IF count_download_failure = 0 THEN [num |-> 100, den |-> 1]
    ELSE [num |-> count_download_success * 100,
          den |-> count_download_success + count_download_failure]

report_aggregates(refs) ==
    IF \E i \in DOMAIN refs : termination_reason(objs[refs[i]]).exc # ""
    THEN Raises("TypeError")
    ELSE IF \E m \in Metrics :
               ExtractRaises(m, refs) \/ stats(durations(m, refs)).exc # ""
    THEN Raises("TypeError")
    ELSE Returns(
           [total |-> count_start_dial,
            download_success_pct |-> DownloadPct,
            normal |-> Cardinality({i \in DOMAIN refs :
                          termination_reason(objs[refs[i]]).val[1] = "normal"}),
            aborted_unknown |-> Cardinality({i \in DOMAIN refs :
                          termination_reason(objs[refs[i]]).val[1] # "normal"}),
            stats |-> [m \in Metrics |-> stats(durations(m, refs)).val]])

\* Does the row printed for a record raise?  The handshake duration is
\* formatted with ":3d", which None does not accept; the duration methods
\* and termination_reason may raise themselves.
RowRaises(r) ==
    \/ handshake_duration(r).exc # ""
    \/ handshake_duration(r).val = None
    \/ download_duration(r).exc # ""
    \/ call_duration(r).exc # ""
    \/ termination_reason(r).exc # ""

\* print_report2: one row per record, then the aggregates
print_report2(refs) ==
    IF \E i \in DOMAIN refs : RowRaises(objs[refs[i]]) THEN Raises("TypeError")
    ELSE report_aggregates(refs)

----------------------------------------------------------------------------
(* Input files *)

\* The marker order of one complete call
CallSeq == <<"start_qmodem", "start_dial", "connected", "start_download",
             "end_download", "dl_status", "end_call", "exit_qmodem">>

\* The lines a one-call log may have at position i: any valid timestamp on a
\* marker, and a SUCCESSFUL! result line with or without a numeric CPS group
CallLinesAt(i) ==
    IF CallSeq[i] = "dl_status"
    THEN {ResultLine("SUCCESSFUL!", c) : c \in {None, Some(CpsComma)}}
    ELSE {MarkerLine(CallSeq[i], ts) : ts \in ValidTs}

\* Labels of status-block lines: two of the ATI6 mapping, two of the ATI11
\* mapping, and one that no mapping has
LblCharsSent == <<<<"Chars", 0>>, <<"sent", 1>>>>

LblCharsReceived == <<<<"Chars", 0>>, <<"Received", 1>>>>

LblRoundtrip == <<<<"Roundtrip", 0>>, <<"Delay", 1>>, <<"(msec)", 1>>>>

LblTiming == <<<<"Timing", 0>>, <<"Offset", 1>>, <<"(", 3>>, <<"ppm)", 1>>>>

LblUnknown == <<<<"Modem", 0>>, <<"clock", 1>>>>

BlockLabels == {LblCharsSent, LblCharsReceived, LblRoundtrip, LblTiming, LblUnknown}

\* Values of one-pair lines: "7" and "-1768"
BlockValues == {Number(7), Word("-1768")}

\* "<l1><g blanks><n1><g blanks><l2><g blanks><n2>"
PairLine(l1, n1, l2, n2, g) ==
    DataLine(LabelTokens(l1) \o <<After(g, Number(n1))>>
             \o [LabelTokens(l2) EXCEPT ![1] = After(g, @)]
             \o <<After(g, Number(n2))>>)

\* "<l>  <v>"
SingleLine(l, v) == DataLine(LabelTokens(l) \o <<After(2, v)>>)

\* "USRobotics Courier V.Everything"
VendorLine == DataLine(<<Word("USRobotics"), Word("Courier"), Word("V.Everything")>>)

BlockDataLines ==
    {PairLine(a, 1024, b, 2048, 3) :
        a \in {LblCharsSent, LblCharsReceived, LblUnknown},
        b \in {LblCharsSent, LblCharsReceived, LblUnknown}}
    \cup {PairLine(LblCharsSent, 1024, LblCharsReceived, 2048, 1)}
    \cup {SingleLine(l, v) :
            l \in {LblCharsSent, LblRoundtrip, LblTiming, LblUnknown},
            v \in BlockValues}
    \cup {VendorLine, PlainLine}

\* The lines a one-block log may have next: start_qmodem, a begin marker,
\* up to MaxBlockLines block lines, the end marker of the same kind
BlockLogNext ==
    IF Len(log) = 0 THEN {MarkerLine("start_qmodem", TsEarly)}
    ELSE IF Len(log) = 1 THEN {BlockLine("stats_ati6"), BlockLine("stats_ati11")}
    ELSE IF log[Len(log)].marks # <<>> /\ Len(log) > 2 THEN {}
    ELSE (IF Len(log) < 2 + MaxBlockLines THEN BlockDataLines ELSE {})
         \cup {BlockLine(IF log[2] = BlockLine("stats_ati6")
                         THEN "end_stats_ati6" ELSE "end_stats_ati11")}

\* The lines of a log of call, abort and block markers: free-form files of
\* these lines, up to MaxCaptureLines long
CaptureLines ==
    {MarkerLine("start_qmodem", TsEarly), MarkerLine("aborting", TsLate),
     MarkerLine("end_call", TsLate), MarkerLine("exit_qmodem", TsLate)}
    \cup {BlockLine(m) : m \in BlockMarkers}
    \cup {SingleLine(LblCharsSent, Number(7))}

\* "Connected at <bps> bps."
BannerLineAt(bps) == [BannerLine EXCEPT !.bps = bps]

BpsValues == {100, 200, 300, 400}

\* The lines a log of complete calls may have next.  Each call is
\* start_qmodem, start_dial, connected, an optional banner, end_call,
\* exit_qmodem (one marker on each line); there are MaxCalls calls at most.
CallsLogNext ==
    IF (IF log = <<>> THEN TRUE ELSE log[Len(log)].marks[1] = "exit_qmodem")
    THEN (IF Cardinality({i \in DOMAIN log : log[i].marks[1] = "start_qmodem"})
               < MaxCalls
          THEN {MarkerLine("start_qmodem", TsEarly)} ELSE {})
    ELSE IF log[Len(log)].marks[1] = "start_qmodem"
    THEN {MarkerLine("start_dial", TsEarly)}
    ELSE IF log[Len(log)].marks[1] = "start_dial"
    THEN {MarkerLine("connected", TsEarly)}
    ELSE IF log[Len(log)].marks[1] = "connected"
    THEN {BannerLineAt(b) : b \in BpsValues} \cup {MarkerLine("end_call", TsLate)}
    ELSE IF log[Len(log)].marks[1] = "wc_banner"
    THEN {MarkerLine("end_call", TsLate)}
    ELSE {MarkerLine("exit_qmodem", TsLate)}

\* "<noise>### stats_ati6" and the like
NoisyBlockLine(m) == Line(TRUE, <<m>>, NoTs, "", None, 0)

\* The lines of a log of markers that line noise precedes: every marker
\* after noise, and a clean start_qmodem and exit_qmodem; free-form files of
\* these lines, up to MaxNoiseLines long
NoiseLines ==
    {NoisyMarkerLine(m, TsLate) : m \in TsMarkers}
    \cup {NoisyBlockLine(m) : m \in BlockMarkers}
    \cup {MarkerLine("start_qmodem", TsEarly), MarkerLine("exit_qmodem", TsLate)}

\* The lines of the logs that two read_file calls of one process read: the
\* lines that change a counter; free-form files up to MaxRunLines long
TwiceLines ==
    {MarkerLine("start_qmodem", TsEarly), MarkerLine("connected", TsEarly),
     ResultLine("SUCCESSFUL!", None), ResultLine("UNSUCCESSFUL.", None)}

\* The lines the file can hold after the ones read so far
NextLines ==
    IF status # "scanning" THEN {}
    ELSE IF shape = "call"
    THEN (IF Len(log) < Len(CallSeq) THEN CallLinesAt(Len(log) + 1) ELSE {})
    ELSE IF shape = "block" THEN BlockLogNext
    ELSE IF shape = "calls" THEN CallsLogNext
    ELSE IF shape = "twice"
    THEN (IF Len(log) < MaxRunLines THEN TwiceLines ELSE {})
    ELSE IF shape = "noise"
    THEN (IF Len(log) < MaxNoiseLines THEN NoiseLines ELSE {})
    ELSE IF shape = "capture"
    THEN (IF Len(log) < MaxCaptureLines THEN CaptureLines ELSE {})
    ELSE (IF Len(log) < MaxLines THEN Lines ELSE {})

\* Can the file end after the lines read so far?
AtEndOfFile ==
    /\ status = "scanning"
    /\ shape = "call" => Len(log) = Len(CallSeq)
    /\ shape = "block" => (Len(log) > 2 /\ log[Len(log)].marks # <<>>)
    /\ shape = "calls" =>
          (IF log = <<>> THEN TRUE ELSE log[Len(log)].marks[1] = "exit_qmodem")

----------------------------------------------------------------------------
(* read_file: which branch of the loop body handles a line *)

Classify(line) ==
    IF Search("start_qmodem", line) THEN "start_qmodem"
    ELSE IF Search("aborting", line) THEN "aborting"
    ELSE IF Search("start_dial", line) THEN "start_dial"
    ELSE IF Search("connected", line) THEN "connected"
    ELSE IF Search("wc_banner", line) THEN "wc_banner"
    ELSE IF Search("start_download", line) THEN "start_download"
    ELSE IF Search("end_download", line) THEN "end_download"
    ELSE IF Search("dl_status", line) THEN "dl_status"
    ELSE IF Match("end_call", line) THEN "end_call"
    ELSE IF Match("stats_ati6", line) THEN "stats_ati6"
    ELSE IF Match("end_stats_ati6", line) THEN "end_stats_ati6"
    ELSE IF Match("stats_ati11", line) THEN "stats_ati11"
    ELSE IF Match("end_stats_ati11", line) THEN "end_stats_ati11"
    ELSE IF Match("exit_qmodem", line) THEN "exit_qmodem"
    ELSE "unmatched"

\* "for line in file": the next line is read and handled by branch b
Reads(line, b) ==
    /\ line \in NextLines
    /\ Classify(line) = b
    /\ log' = Append(log, line)
    /\ UNCHANGED <<args, shape, report, earlier>>

\* The statement raises: the exception leaves read_file
RaiseOnly(exc) ==
    /\ status' = exc
    /\ UNCHANGED <<store, objs, record, locals, counters>>

\* "record.<field> = parse_log_ts(...)" followed by continue
SetTimestamp(line, field) ==
    IF TsRaises(line.ts) THEN RaiseOnly("ValueError")
    ELSE IF record = None THEN RaiseOnly("AttributeError")
    ELSE /\ objs' = [objs EXCEPT ![record[1]][field] = Some(parse_log_ts(line.ts))]
         /\ UNCHANGED <<status, store, record, locals, counters>>

\* "if in_ati: ati_lines.append(line.strip())"
AppendIfInAti(line) == IF in_ati THEN Append(ati_lines, Strip(line)) ELSE ati_lines

\* the stored record stays current after the exit marker
RecordAfterExit_Kept(rec) == rec

\* "record = None" after the exit marker's save
RecordAfterExit(rec) == None

\* the open record is dropped at end of input
SaveUnsaved_Dropped(records, rec) == records

\* "if record is not None: repo.save(record)" after the loop
SaveUnsaved(records, rec) == IF rec # None THEN save(records, rec[1]) ELSE records

\* a new call that drops the record still open
SaveOpen_Skipped(records, rec) == records

\* "if record is not None and record.start_qmodem is not None:
\* repo.save(record)" when a start_qmodem marker arrives
SaveOpen(records, rec) ==
    IF rec # None /\ objs[rec[1]].start_qmodem # None
    THEN save(records, rec[1]) ELSE records

Init ==
    /\ args \in {[nullmodem |-> b] : b \in BOOLEAN}
    /\ shape \in {"any", "call", "block", "capture", "calls", "noise"}
    /\ log = <<>>
    /\ status = "scanning"
    /\ store = <<>>
    /\ objs = <<>>
    /\ record = None
    /\ in_ati = FALSE
    /\ ati_lines = <<>>
    /\ aborted = FALSE
    /\ count_start_dial = 0
    /\ count_connected = 0
    /\ count_download_success = 0
    /\ count_download_failure = 0
    /\ report = None
    /\ earlier = None

OnStartQmodem ==
    \E line \in NextLines :
      /\ Reads(line, "start_qmodem")
      /\ IF TsRaises(line.ts) THEN RaiseOnly("ValueError")
         ELSE /\ store' = SaveOpen(store, record)
              /\ record' = Some(Len(objs) + 1)
              /\ count_start_dial' = PostInit(count_start_dial)
              /\ UNCHANGED <<count_connected, count_download_success,
                             count_download_failure>>
              /\ IF EnumRaises(ConnectTypeExpr(args))
                 THEN /\ status' = "AttributeError"
                      /\ objs' = Append(objs, CallRecord)
                      /\ UNCHANGED locals
                 ELSE /\ objs' = Append(objs,
                            [CallRecord EXCEPT
                               !.connect_type = ConnectTypeExpr(args),
                               !.start_qmodem = Some(parse_log_ts(line.ts))])
                      /\ aborted' = FALSE
                      /\ UNCHANGED <<status, in_ati, ati_lines>>

OnAbort ==
    \E line \in NextLines :
      /\ Reads(line, "aborting")
      /\ IF TsRaises(line.ts) THEN RaiseOnly("ValueError")
         ELSE IF record = None THEN RaiseOnly("AttributeError")
         ELSE /\ objs' = [objs EXCEPT
                            ![record[1]].aborted_time = Some(parse_log_ts(line.ts)),
                            ![record[1]].abort_reason = Some("reason")]
              /\ aborted' = TRUE
              /\ UNCHANGED <<status, store, record, in_ati, ati_lines, counters>>

OnStartDial ==
    \E line \in NextLines :
      /\ Reads(line, "start_dial")
      /\ SetTimestamp(line, "start_dial")

OnConnected ==
    \E line \in NextLines :
      /\ Reads(line, "connected")
      /\ IF TsRaises(line.ts) THEN RaiseOnly("ValueError")
         ELSE IF record = None THEN RaiseOnly("AttributeError")
         ELSE /\ objs' = [objs EXCEPT ![record[1]] =
                            mark_connected(
                              [@ EXCEPT !.connect_time = Some(parse_log_ts(line.ts))],
                              TRUE)]
              /\ count_connected' = mark_connected_count(count_connected, TRUE)
              /\ UNCHANGED <<status, store, record, locals, count_start_dial,
                             count_download_success, count_download_failure>>

OnBanner ==
    \E line \in NextLines :
      /\ Reads(line, "wc_banner")
      /\ IF record = None THEN RaiseOnly("AttributeError")
         ELSE /\ objs' = [objs EXCEPT ![record[1]].remote_connect_bps = Some(line.bps)]
              /\ UNCHANGED <<status, store, record, locals, counters>>

OnStartDownload ==
    \E line \in NextLines :
      /\ Reads(line, "start_download")
      /\ SetTimestamp(line, "start_download")

OnEndDownload ==
    \E line \in NextLines :
      /\ Reads(line, "end_download")
      /\ SetTimestamp(line, "end_download")

OnDownloadResult ==
    \E line \in NextLines :
      /\ Reads(line, "dl_status")
      /\ IF record = None THEN RaiseOnly("AttributeError")
         ELSE LET success == line.result = "SUCCESSFUL!"
                  marked == mark_download_success(objs[record[1]], success)
              IN /\ count_download_success' =
                        mark_download_success_ok(count_download_success, success)
                 /\ count_download_failure' =
                        mark_download_success_fail(count_download_failure, success)
                 /\ UNCHANGED <<store, record, locals, count_start_dial, count_connected>>
                 /\ IF line.cps = None
                    THEN /\ objs' = [objs EXCEPT ![record[1]] = marked]
                         /\ UNCHANGED status
                    ELSE IF IntRaises(StripCommas(line.cps[1]))
                    THEN /\ objs' = [objs EXCEPT ![record[1]] = marked]
                         /\ status' = "ValueError"
                    ELSE /\ objs' = [objs EXCEPT ![record[1]] =
                               [marked EXCEPT !.download_cps =
                                   Some(IntOf(StripCommas(line.cps[1])))]]
                         /\ UNCHANGED status

OnEndCall ==
    \E line \in NextLines :
      /\ Reads(line, "end_call")
      /\ SetTimestamp(line, "end_call")

OnBeginAti6 ==
    \E line \in NextLines :
      /\ Reads(line, "stats_ati6")
      /\ in_ati' = TRUE
      /\ ati_lines' = <<>>
      /\ UNCHANGED <<status, store, objs, record, aborted, counters>>

\* an end marker that attaches nothing once the call was aborted
EndBlock_SkippedWhenAborted(line, kind) ==
    /\ in_ati' = FALSE
    /\ UNCHANGED <<store, record, aborted, counters>>
    /\ IF record = None
       THEN /\ status' = "AttributeError"
            /\ ati_lines' = AppendIfInAti(line)
            /\ UNCHANGED objs
       ELSE /\ objs' = IF aborted THEN objs
                       ELSE [objs EXCEPT ![record[1]][kind] =
                               Some(ATIParser(kind, AppendIfInAti(line)))]
            /\ ati_lines' = <<>>
            /\ UNCHANGED status

\* the end marker of a block: kind is "ati6" or "ati11"
EndBlock(line, kind) ==
    /\ in_ati' = FALSE
    /\ UNCHANGED <<store, record, aborted, counters>>
    /\ IF record = None
       THEN /\ status' = "AttributeError"
            /\ ati_lines' = AppendIfInAti(line)
            /\ UNCHANGED objs
       ELSE /\ objs' = [objs EXCEPT ![record[1]][kind] =
                           Some(ATIParser(kind, AppendIfInAti(line)))]
            /\ ati_lines' = <<>>
            /\ UNCHANGED status

OnEndAti6 ==
    \E line \in NextLines :
      /\ Reads(line, "end_stats_ati6")
      /\ EndBlock(line, "ati6")

OnBeginAti11 ==
    \E line \in NextLines :
      /\ Reads(line, "stats_ati11")
      /\ in_ati' = TRUE
      /\ ati_lines' = <<>>
      /\ UNCHANGED <<status, store, objs, record, aborted, counters>>

OnEndAti11 ==
    \E line \in NextLines :
      /\ Reads(line, "end_stats_ati11")
      /\ EndBlock(line, "ati11")

OnExitQmodem ==
    \E line \in NextLines :
      /\ Reads(line, "exit_qmodem")
      /\ ati_lines' = AppendIfInAti(line)
      /\ UNCHANGED <<in_ati, aborted, counters>>
      /\ IF TsRaises(line.ts)
         THEN status' = "ValueError" /\ UNCHANGED <<store, objs, record>>
         ELSE IF record = None
         THEN status' = "AttributeError" /\ UNCHANGED <<store, objs, record>>
         ELSE /\ objs' = [objs EXCEPT ![record[1]].exit_qmodem =
                                          Some(parse_log_ts(line.ts))]
              /\ store' = save(store, record[1])
              /\ record' = RecordAfterExit(record)
              /\ UNCHANGED status

\* a line that no branch acts on
OnUnmatched ==
    \E line \in NextLines :
      /\ Reads(line, "unmatched")
      /\ ati_lines' = AppendIfInAti(line)
      /\ UNCHANGED <<status, store, objs, record, in_ati, aborted, counters>>

\* the file is exhausted: the code after the loop
EndOfInput ==
    /\ AtEndOfFile
    /\ store' = SaveUnsaved(store, record)
    /\ status' = "returned"
    /\ UNCHANGED <<args, shape, log, objs, record, locals, counters, report,
                   earlier>>

\* main, after read_file returned: print_report2(sessions, args)
PrintReport2 ==
    /\ status = "returned"
    /\ report = None
    /\ report' = Some(print_report2(store))
    /\ UNCHANGED <<args, shape, log, status, store, objs, record, locals, counters,
                   earlier>>

Next ==
    \/ OnStartQmodem
    \/ OnAbort
    \/ OnStartDial
    \/ OnConnected
    \/ OnBanner
    \/ OnStartDownload
    \/ OnEndDownload
    \/ OnDownloadResult
    \/ OnEndCall
    \/ OnBeginAti6
    \/ OnEndAti6
    \/ OnBeginAti11
    \/ OnEndAti11
    \/ OnExitQmodem
    \/ OnUnmatched
    \/ EndOfInput
    \/ PrintReport2

Spec == Init /\ [][Next]_vars

----------------------------------------------------------------------------
(* A process that calls read_file twice.  The second call starts with a    *)
(* new store and new locals; the class attributes of CallRecord are those  *)
(* the first call left.  The heap is restarted with the store, the records *)
(* of the first store playing no part in the second call.                  *)

InitTwice ==
    /\ args \in {[nullmodem |-> b] : b \in BOOLEAN}
    /\ shape = "twice"
    /\ log = <<>>
    /\ status = "scanning"
    /\ store = <<>>
    /\ objs = <<>>
    /\ record = None
    /\ in_ati = FALSE
    /\ ati_lines = <<>>
    /\ aborted = FALSE
    /\ count_start_dial = 0
    /\ count_connected = 0
    /\ count_download_success = 0
    /\ count_download_failure = 0
    /\ report = None
    /\ earlier = None

\* read_file is called again after it returned
ReadFileAgain ==
    /\ status = "returned"
    /\ earlier = None
    /\ earlier' = Some([log |-> log, counters |-> counters])
    /\ log' = <<>>
    /\ status' = "scanning"
    /\ store' = <<>>
    /\ objs' = <<>>
    /\ record' = None
    /\ in_ati' = FALSE
    /\ ati_lines' = <<>>
    /\ aborted' = FALSE
    /\ UNCHANGED <<args, shape, counters, report>>

NextTwice ==
    \/ OnStartQmodem
    \/ OnConnected
    \/ OnDownloadResult
    \/ EndOfInput
    \/ ReadFileAgain

SpecTwice == InitTwice /\ [][NextTwice]_vars

----------------------------------------------------------------------------
(* Vocabulary of the properties *)

Range(f) == {f[i] : i \in DOMAIN f}

LastLine == log[Len(log)]

\* A line has just been read by this step
ReadsALine == Len(log') = Len(log) + 1

\* The branches that write to the current record
MutatingBranches ==
    {"aborting", "start_dial", "connected", "wc_banner", "start_download",
     "end_download", "dl_status", "end_call", "end_stats_ati6",
     "end_stats_ati11", "exit_qmodem"}

\* The line is well formed: its timestamp (if its marker carries one) is a
\* date and its CPS group (if any) is a number
WellFormed(line) ==
    /\ (\E i \in 1..Len(line.marks) : line.marks[i] \in TsMarkers) => ~TsRaises(line.ts)
    /\ line.cps # None => ~IntRaises(StripCommas(line.cps[1]))

\* The positions of the log whose line carries a timestamp
TsPositions == {i \in 1..Len(log) : log[i].marks # <<>> /\ log[i].marks[1] \in TsMarkers}

\* The timestamps of the log read so far never go back in time
NonDecreasingLog ==
    \A i, j \in TsPositions :
        i < j => parse_log_ts(log[i].ts) <= parse_log_ts(log[j].ts)

\* Number of start_qmodem markers among the lines read so far
StartMarkersSeen == Cardinality({i \in 1..Len(log) : Search("start_qmodem", log[i])})

TimestampFields ==
    {"start_qmodem", "start_dial", "connect_time", "start_download",
     "end_download", "end_call", "exit_qmodem", "aborted_time"}

\* The method returned a value that is present and not negative
PresentNonNegative(res) == res.exc = "" /\ res.val # None /\ res.val[1] >= 0

\* The connection kind the run configuration asks for
ConfiguredKind == IF args.nullmodem THEN "DIRECTSERIAL" ELSE "MODEM"

----------------------------------------------------------------------------
(* Properties *)

\* C1: an event that writes to the current record and arrives while no
\* record is open is ignored: the scan goes on, and the store and the
\* counters are as they were before the line.
C1_OrphanEventIgnored ==
    [][(/\ status = "scanning"
        /\ record = None
        /\ ReadsALine
        /\ Classify(log'[Len(log')]) \in MutatingBranches
        /\ WellFormed(log'[Len(log')]))
       => (/\ status' = "scanning"
           /\ store' = store
           /\ counters' = counters)]_vars

\* C2: once read_file is over on a log of exactly one complete call whose
\* timestamps never go back, it has returned a store of exactly one record,
\* connected and downloaded successfully, whose handshake, download and call
\* durations are all present and not negative.
C2_OneCompleteCall ==
    (shape = "call" /\ status # "scanning" /\ NonDecreasingLog)
    => /\ status = "returned"
       /\ Len(store) = 1
       /\ objs[store[1]].connected = Some(TRUE)
       /\ objs[store[1]].download_success = Some(TRUE)
       /\ PresentNonNegative(handshake_duration(objs[store[1]]))
       /\ PresentNonNegative(download_duration(objs[store[1]]))
       /\ PresentNonNegative(call_duration(objs[store[1]]))

\* C3: when the input ends while a record is still open, the store that
\* read_file returns has that record as its last element.
C3_OpenRecordStoredAtEnd ==
    (status = "returned" /\ record # None)
    => (store # <<>> /\ store[Len(store)] = record[1])

\* C3 witness: the file stopped right after an UNSUCCESSFUL. result and the
\* open record, which never saw exit_qmodem, is the last of the store.
C3_Witness ==
    /\ status = "returned"
    /\ record # None
    /\ log # <<>>
    /\ LastLine = ResultLine("UNSUCCESSFUL.", None)
    /\ objs[record[1]].exit_qmodem = None
    /\ objs[record[1]].download_success = Some(FALSE)
    /\ store[Len(store)] = record[1]

\* C4: at every line boundary of the scan and at its return, the shared
\* attempt counter equals the number of start_qmodem markers read so far.
C4_AttemptsEqualStartMarkers ==
    status \in {"scanning", "returned"} => count_start_dial = StartMarkersSeen

\* C4 witness: a run that returned after reading two start_qmodem markers.
C4_Witness ==
    status = "returned" /\ StartMarkersSeen = 2 /\ count_start_dial = 2

\* C5: the connected counter never exceeds the attempt counter, so the
\* failure count is never negative and the success percentage never above 100.
C5_ConnectedAtMostAttempts ==
    /\ count_connected <= count_start_dial
    /\ connect_failure_count >= 0
    /\ ~connect_success_percent_exceeds(100)

\* C6: once a lifecycle timestamp of a record holds a value, no later event
\* changes it.
C6_TimestampsSetOnce ==
    [][\A i \in DOMAIN objs : \A f \in TimestampFields :
          objs[i][f] # None => objs'[i][f] = objs[i][f]]_vars

\* C7: a record that is in the store is never changed by a later line, and
\* while the scan goes on the current record is never one of the stored ones.
C7_StoredRecordDetached ==
    [][/\ \A i \in Range(store) : objs'[i] = objs[i]
       /\ (status' # "returned" /\ record' # None) => record'[1] \notin Range(store')]_vars

\* C7 witness: a record was stored by a new start_qmodem (crash-recovery
\* save) and a later start_dial went to the new current record, leaving the
\* stored one without a start_dial.
C7_Witness ==
    /\ status = "scanning"
    /\ Len(store) = 1
    /\ record # None
    /\ record[1] # store[1]
    /\ objs[record[1]].start_dial # None
    /\ objs[store[1]].start_dial = None

\* C8: no record, current or stored, has a download_cps without
\* download_success being true.
C8_CpsOnlyOnSuccess ==
    \A i \in DOMAIN objs :
        objs[i].download_cps # None => objs[i].download_success = Some(TRUE)

\* C9: an UNSUCCESSFUL. result line without a CPS group, handled for a
\* current record that has no download result yet, leaves download_success
\* false and download_cps absent, adds exactly one to the download-failure
\* counter and leaves the download-success counter alone.
C9_FailureWithoutCps ==
    [][(/\ status = "scanning"
        /\ record # None
        /\ ReadsALine
        /\ log'[Len(log')] = ResultLine("UNSUCCESSFUL.", None)
        /\ objs[record[1]].download_success = None)
       => (/\ status' = "scanning"
           /\ objs'[record[1]].download_success = Some(FALSE)
           /\ objs'[record[1]].download_cps = None
           /\ count_download_failure' = count_download_failure + 1
           /\ count_download_success' = count_download_success)]_vars

\* C9 witness: the first result of the current record was a bare
\* UNSUCCESSFUL. line.
C9_Witness ==
    /\ status = "scanning"
    /\ record # None
    /\ log # <<>>
    /\ LastLine = ResultLine("UNSUCCESSFUL.", None)
    /\ objs[record[1]].download_success = Some(FALSE)
    /\ objs[record[1]].download_cps = None
    /\ count_download_failure = 1
    /\ count_download_success = 0

\* C10: every record gets the connection kind of the run configuration when
\* it is created, and no later event changes a record's connection kind.
C10_ConnectionKindFixed ==
    [][/\ \A i \in DOMAIN objs' : objs'[i].connect_type = ConfiguredKind
       /\ \A i \in DOMAIN objs : objs'[i].connect_type = objs[i].connect_type]_vars


\* The classification the three rules give a record, by name
ExpectedTermination(r) ==
    IF r.aborted_time # None THEN "ABORTED"
    ELSE IF r.end_call # None THEN "normal"
    ELSE "unknown"

\* C11: for every stored record the termination classification is defined
\* (the method returns) and is ABORTED when an abort timestamp exists,
\* otherwise normal when an end-call timestamp exists, otherwise unknown.
C11_TerminationDefined ==
    \A i \in Range(store) :
        /\ termination_reason(objs[i]).exc = ""
        /\ termination_reason(objs[i]).val[1] = ExpectedTermination(objs[i])

\* The value the priority order of call_duration selects, absent when a
\* timestamp the selected rule needs is missing
ExpectedCallDuration(r) ==
    LET diff(a, b) == IF a = None \/ b = None THEN None ELSE Some(a[1] - b[1])
    IN IF r.connect_type = "DIRECTSERIAL" THEN diff(r.exit_qmodem, r.start_qmodem)
       ELSE IF r.end_call # None THEN diff(r.end_call, r.connect_time)
       ELSE IF r.aborted_time # None THEN diff(r.aborted_time, r.connect_time)
       ELSE IF r.exit_qmodem # None THEN diff(r.exit_qmodem, r.connect_time)
       ELSE None

\* C12: for every stored record call_duration returns (never raises) the
\* value of the first applicable rule of its priority order, and absent
\* when a timestamp that rule needs is missing.
C12_CallDurationPriority ==
    \A i \in Range(store) :
        /\ call_duration(objs[i]).exc = ""
        /\ call_duration(objs[i]).val = ExpectedCallDuration(objs[i])


\* The branches that parse the timestamp of their marker
TimestampBranches ==
    {"start_qmodem", "aborting", "start_dial", "connected", "start_download",
     "end_download", "end_call", "exit_qmodem"}

\* This step reads a line that a timestamp branch handles and whose
\* timestamp text is not a date
ReadsMalformedTimestamp ==
    /\ status = "scanning"
    /\ ReadsALine
    /\ Classify(log'[Len(log')]) \in TimestampBranches
    /\ log'[Len(log')].ts = TsMalformed

\* C16: a marker line with a malformed timestamp is only skipped:
\* the current record, the store and the counters stay as they were and the
\* scan goes on.
C16_MalformedTimestampSkipped ==
    [][ReadsMalformedTimestamp
       => (/\ status' = "scanning"
           /\ UNCHANGED <<record, objs, store, counters>>)]_vars

\* The kind of the block that the most recent begin marker opened
LastBeginKind ==
    LET begins == {i \in 1..Len(log) :
                     Classify(log[i]) \in {"stats_ati6", "stats_ati11"}}
        last == CHOOSE i \in begins : \A j \in begins : j <= i
    IN IF begins = {} THEN ""
       ELSE IF Classify(log[last]) = "stats_ati6" THEN "ati6" ELSE "ati11"

\* C17: an end marker read while no block is open, or while a block of the
\* other kind is open, leaves ati6 and ati11 of the current record unchanged.
C17_EndMarkerNeedsOpenBlock ==
    [][\A kind \in {"ati6", "ati11"} :
          (/\ status = "scanning"
           /\ record # None
           /\ ReadsALine
           /\ Classify(log'[Len(log')]) = (IF kind = "ati6" THEN "end_stats_ati6"
                                           ELSE "end_stats_ati11")
           /\ (~in_ati \/ LastBeginKind # kind))
          => (/\ objs'[record[1]].ati6 = objs[record[1]].ati6
              /\ objs'[record[1]].ati11 = objs[record[1]].ati11)]_vars

\* C19: a start_qmodem marker read while a record is open appends that
\* record to the store exactly once, with the fields it had before the
\* marker, and makes a fresh record current that has only its start
\* timestamp and its connection kind set.
C19_CrashRecoverySave ==
    [][(/\ status = "scanning"
        /\ record # None
        /\ ReadsALine
        /\ Classify(log'[Len(log')]) = "start_qmodem"
        /\ log'[Len(log')].ts \in ValidTs)
       => (/\ status' = "scanning"
           /\ store' = Append(store, record[1])
           /\ Cardinality({k \in DOMAIN store' : store'[k] = record[1]}) = 1
           /\ objs'[record[1]] = objs[record[1]]
           /\ record' # None
           /\ record'[1] \notin Range(store')
           /\ record'[1] \notin DOMAIN objs
           /\ objs'[record'[1]] =
                 [CallRecord EXCEPT
                    !.start_qmodem = Some(parse_log_ts(log'[Len(log')].ts)),
                    !.connect_type = ConfiguredKind])]_vars

\* C19 witness: the open record had a start_dial; after the second
\* start_qmodem it is in the store with it and the new current record has none.
C19_Witness ==
    /\ status = "scanning"
    /\ Len(log) = 3
    /\ Classify(LastLine) = "start_qmodem"
    /\ Len(store) = 1
    /\ objs[store[1]].start_dial # None
    /\ record # None
    /\ record[1] # store[1]
    /\ objs[record[1]].start_dial = None


\* The labels a status-block line carries
LabelsOn(line) ==
    {l \in BlockLabels :
        \/ \E v \in BlockValues : line = Strip(SingleLine(l, v))
        \/ \E o \in BlockLabels, g \in {1, 3} :
              \/ line = Strip(PairLine(l, 1024, o, 2048, g))
              \/ line = Strip(PairLine(o, 1024, l, 2048, g))}

\* The identifiers of the labels of the mapping that some line carries
ExpectedFields(kind, lines) ==
    {mapped_name(get_mapping(kind), l)[1] :
        l \in {x \in UNION {LabelsOn(lines[k]) : k \in DOMAIN lines} :
                 mapped_name(get_mapping(kind), x) # None}}

\* Is the line "Chars sent 1024  Chars Received 2048" the only one of the
\* buffer that carries these two labels?
OnlyCharsPair(lines) ==
    /\ \E k \in DOMAIN lines, g \in {1, 3} :
          lines[k] = Strip(PairLine(LblCharsSent, 1024, LblCharsReceived, 2048, g))
    /\ \A k \in DOMAIN lines :
          LabelsOn(lines[k]) \cap {LblCharsSent, LblCharsReceived} # {}
             => \E g \in {1, 3} :
                  lines[k] = Strip(PairLine(LblCharsSent, 1024, LblCharsReceived, 2048, g))

\* C15: the parser's result holds exactly the identifiers of the mapped
\* labels that some line of the buffer carries (unknown labels dropped,
\* absent fields absent, the vendor line contributing nothing), and the
\* two-pair line "Chars sent 1024 Chars Received 2048" gives
\* chars_tx = 1024 and chars_rx = 2048.
C15_ParsedFieldsAreMappedLabels ==
    \A i \in DOMAIN objs, kind \in {"ati6", "ati11"} :
        objs[i][kind] # None =>
            LET p == objs[i][kind][1]
            IN  /\ DOMAIN p.data = ExpectedFields(kind, p.input_lines)
                /\ (kind = "ati6" /\ OnlyCharsPair(p.input_lines))
                      => /\ p.data["chars_tx"] = IntValue(1024)
                         /\ p.data["chars_rx"] = IntValue(2048)


\* C18: no begin or end marker line of a status block is in the buffer
\* handed to the parser: every line of an attached parser's input is a
\* line that is not a block marker.
C18_NoMarkerInParsedBuffer ==
    \A i \in DOMAIN objs, kind \in {"ati6", "ati11"} :
        objs[i][kind] # None =>
            \A k \in DOMAIN objs[i][kind][1].input_lines :
                Classify(objs[i][kind][1].input_lines[k]) \notin BlockMarkers


\* C20: an abort does not stop the processing of the call.  When a line is
\* read while the current record carries an abort timestamp, the line acts
\* on that same record: a block begin opens the capture, a block end
\* attaches a parser holding the captured lines, end_call and exit_qmodem
\* set their timestamps, exit_qmodem stores the record, and the abort
\* timestamp and the attached blocks stay on the record.
C20_AbortKeepsProcessing ==
    [][(/\ status = "scanning"
        /\ record # None
        /\ objs[record[1]].aborted_time # None
        /\ ReadsALine)
       => LET r == record[1]
              line == log'[Len(log')]
              b == Classify(line)
          IN  /\ b # "aborting" => objs'[r].aborted_time = objs[r].aborted_time
              /\ b \in {"stats_ati6", "stats_ati11"} => (in_ati' /\ record' = record)
              /\ \A kind \in {"ati6", "ati11"} :
                    (b = IF kind = "ati6" THEN "end_stats_ati6" ELSE "end_stats_ati11")
                    => /\ status' = "scanning"
                       /\ record' = record
                       /\ objs'[r][kind] # None
                       /\ Len(objs'[r][kind][1].input_lines) >= Len(ati_lines)
                       /\ SubSeq(objs'[r][kind][1].input_lines, 1, Len(ati_lines))
                             = ati_lines
              /\ (b = "end_call" /\ line.ts \in ValidTs)
                    => /\ objs'[r].end_call = Some(parse_log_ts(line.ts))
                       /\ record' = record
              /\ (b = "exit_qmodem" /\ line.ts \in ValidTs)
                    => /\ objs'[r].exit_qmodem = Some(parse_log_ts(line.ts))
                       /\ objs'[r].ati6 = objs[r].ati6
                       /\ objs'[r].ati11 = objs[r].ati11
                       /\ store' = Append(store, r)]_vars

\* a block captured after the abort, with one line in it, is on the stored
\* record together with the abort timestamp
C20_Witness ==
    /\ Len(log) = 5
    /\ Classify(log[2]) = "aborting"
    /\ Classify(log[3]) = "stats_ati6"
    /\ Classify(log[4]) = "unmatched"
    /\ Classify(log[5]) = "end_stats_ati6"
    /\ Len(store) = 1
    /\ objs[store[1]].aborted_time # None
    /\ objs[store[1]].ati6 # None
    /\ objs[store[1]].ati6[1].input_lines[1] = Strip(log[4])


\* C13: the percentages are 0 on a zero denominator: the connect success
\* percentage is 0.0 when no attempt was counted, and the download success
\* percentage of the report is 0 when no download result was counted.
C13_ZeroPercentOnZeroDenominators ==
    /\ count_start_dial = 0
          => (~connect_success_percent_exceeds(0) /\ connect_success_percent_exceeds(-1))
    /\ (/\ report # None
        /\ report[1].exc = ""
        /\ count_download_success + count_download_failure = 0)
          => report[1].val.download_success_pct.num = 0

\* The positions of the store whose record has a value for metric m
Present(m) == {i \in DOMAIN store : Extract(m, objs[store[i]]).val # None}

\* The k-th smallest element of a set of numbers
Nth(S, k) == CHOOSE i \in S : Cardinality({j \in S : j < i}) = k - 1

\* The non-absent values of metric m, in store order
MetricValues(m) ==
    [k \in 1..Cardinality(Present(m)) |->
        Extract(m, objs[store[Nth(Present(m), k)]]).val[1]]

\* C14: for every metric of a printed report, the data set is the non-absent
\* values of the metric in store order; an empty data set is reported as
\* N/A, and a data set of n numbers is reported with avg = floor(sum / n),
\* the smallest and the largest value.  For [100, 200, 300, 400] these are
\* 250, 100 and 400.
C14_StatsOverPresentValues ==
    (report # None /\ report[1].exc = "") =>
        \A m \in Metrics :
            LET e == MetricValues(m)
                n == Len(e)
                entry == report[1].val.stats[m]
            IN  /\ durations(m, store) = e
                /\ n = 0 => entry = None
                /\ n > 0 =>
                     /\ entry # None
                     /\ entry[1].avg * n <= SumOf(e)
                     /\ SumOf(e) < (entry[1].avg + 1) * n
                     /\ \E k \in 1..n : entry[1].min = e[k].n[1]
                     /\ \E k \in 1..n : entry[1].max = e[k].n[1]
                     /\ \A k \in 1..n : entry[1].min <= e[k].n[1] /\ e[k].n[1] <= entry[1].max
                /\ e = <<IntValue(100), IntValue(200), IntValue(300), IntValue(400)>>
                     => entry = Some([avg |-> 250, min |-> 100, max |-> 400])

\* a printed report of four stored calls whose banner speeds are 100, 200,
\* 300, 400 in store order: 250 / 100 / 400 for the speed, N/A for the CPS
C14_Witness ==
    /\ report # None
    /\ report[1].exc = ""
    /\ Len(store) = 4
    /\ \A k \in 1..4 : objs[store[k]].remote_connect_bps = Some(100 * k)
    /\ report[1].val.stats["bps"] = Some([avg |-> 250, min |-> 100, max |-> 400])
    /\ report[1].val.stats["cps"] = None


\* The record field a timestamp marker sets
FieldOf(m) ==
    CASE m = "connected" -> "connect_time"
      [] m = "aborting" -> "aborted_time"
      [] OTHER -> m

\* C21: exit_qmodem, end_call and the block markers act only at the start of
\* the line, the other markers anywhere in it.  When a line whose marker
\* follows noise is read: an exit_qmodem, end_call or block marker changes no
\* record, stores nothing, leaves the current record current and opens or
\* closes no block; a start_qmodem creates a new current record; a
\* start_dial, connected, start_download, end_download or aborting marker
\* sets its timestamp on the current record.
C21_AnchoredMarkers ==
    [][(/\ status = "scanning"
        /\ ReadsALine
        /\ log'[Len(log')].noise
        /\ Len(log'[Len(log')].marks) = 1
        /\ log'[Len(log')].ts \in ValidTs \cup {NoTs})
       => LET line == log'[Len(log')]
              m == line.marks[1]
          IN  /\ m \in {"exit_qmodem", "end_call"} \cup BlockMarkers
                    => /\ status' = "scanning"
                       /\ UNCHANGED <<objs, store, record, in_ati, counters>>
              /\ (m = "start_qmodem" /\ ~args.nullmodem)
                    => /\ status' = "scanning"
                       /\ record' # None
                       /\ record' # record
                       /\ objs'[record'[1]].start_qmodem = Some(parse_log_ts(line.ts))
                       /\ count_start_dial' = count_start_dial + 1
              /\ (/\ m \in {"start_dial", "connected", "start_download",
                            "end_download", "aborting"}
                  /\ record # None)
                    => /\ status' = "scanning"
                       /\ record' = record
                       /\ objs'[record[1]][FieldOf(m)] = Some(parse_log_ts(line.ts))]_vars

\* a noise-prefixed start_qmodem and start_dial had their effect, the
\* noise-prefixed exit_qmodem had none: the record was stored at end of
\* input only, without an exit timestamp
C21_Witness ==
    /\ status = "returned"
    /\ log = <<NoisyMarkerLine("start_qmodem", TsLate),
               NoisyMarkerLine("start_dial", TsLate),
               NoisyMarkerLine("exit_qmodem", TsLate)>>
    /\ Len(store) = 1
    /\ record = Some(store[1])
    /\ objs[store[1]].start_dial = Some(parse_log_ts(TsLate))
    /\ objs[store[1]].exit_qmodem = None


\* C23: the capture state of status blocks does not pass from one call to
\* the next: once a start_qmodem or exit_qmodem marker has been handled, no
\* block is open and the buffer is empty.
C23_CaptureStateReset ==
    [][(/\ status = "scanning"
        /\ ReadsALine
        /\ Classify(log'[Len(log')]) \in {"start_qmodem", "exit_qmodem"}
        /\ status' = "scanning")
       => (~in_ati' /\ ati_lines' = <<>>)]_vars


\* C24: every record created by a start_qmodem marker is stored exactly
\* once.  While the scan runs no record is in the store twice and the stored
\* records are in creation order; when the scan has completed the store
\* holds one record per start_qmodem marker seen, the k-th stored record
\* being the one the k-th marker created.
C24_EachRecordStoredOnce ==
    /\ status \in {"scanning", "returned"}
          => \A j, k \in DOMAIN store : j < k => store[j] < store[k]
    /\ status = "returned"
          => /\ Len(store) = StartMarkersSeen
             /\ Len(objs) = StartMarkersSeen
             /\ \A k \in DOMAIN store : store[k] = k

\* three records stored by the three paths: the first by its exit_qmodem,
\* the second by the start_qmodem that follows it, the third at end of input
C24_Witness ==
    /\ status = "returned"
    /\ Len(log) = 4
    /\ Classify(log[1]) = "start_qmodem"
    /\ Classify(log[2]) = "exit_qmodem"
    /\ Classify(log[3]) = "start_qmodem"
    /\ Classify(log[4]) = "start_qmodem"
    /\ store = <<1, 2, 3>>
    /\ objs[1].exit_qmodem # None
    /\ objs[2].exit_qmodem = None
    /\ record = Some(3)


\* C22: the counters of a run depend on that run's input only: when
\* read_file has read, in a second call, the same log as in the first call
\* of the process, the four counters are those the first call returned with.
C22_CountersOfOneRunOnly ==
    (/\ status = "returned"
     /\ earlier # None
     /\ log = earlier[1].log)
       => counters = earlier[1].counters

====
